---- MODULE Spec2Model ----
(***************************************************************************)
(* Model of src/Parser/Query.ts: the query tokenizer URLQuery.fromString,  *)
(* the entry point parse, the primitive parsers stringP / intP / numberP / *)
(* enumP / customP and the combinators map / map2 / map3.                  *)
(*                                                                         *)
(* A JavaScript string is a sequence of one-character strings, so that     *)
(* charAt, parseInt and parseFloat work on characters.  A JavaScript value *)
(* is a tagged record; every tag has its own field names.                  *)
(***************************************************************************)
EXTENDS Integers, Sequences, FiniteSets, TLC

\* --------------------------------------------------------------- bounds
\* Most '&'-separated segments in a raw query string.
MaxSegs == 3
\* Most (key, value) pairs in a query mapping handed straight to a parser.
MaxPairs == 3

\* ------------------------------------------------------ JavaScript values
Undefined == [t |-> "undefined"]
NaN == [t |-> "NaN"]
\* a string value; s is its character sequence
Str(s) == [t |-> "string", s |-> s]
\* the number m * 10^(-e), m an integer not divisible by ten unless e = 0
Num(m, e) == [t |-> "number", m |-> m, e |-> e]
Bool(b) == [t |-> "boolean", b |-> b]
\* an array of strings; xs is a sequence of character sequences
Arr(xs) == [t |-> "array", xs |-> xs]
\* the array a user function builds from the values it was called with
Tuple(vs) == [t |-> "tuple", vs |-> vs]
\* a built-in function object: its name and its "length" property
Fun(name, n) == [t |-> "function", name |-> name, length |-> n]

\* ------------------------------------------------------------ strings used
K == <<"k">>
J == <<"j">>
sConstructor == <<"c", "o", "n", "s", "t", "r", "u", "c", "t", "o", "r">>
sToString == <<"t", "o", "S", "t", "r", "i", "n", "g">>
sUndefined == <<"u", "n", "d", "e", "f", "i", "n", "e", "d">>
sTrue == <<"t", "r", "u", "e">>
sFalse == <<"f", "a", "l", "s", "e">>
sTwo == <<"t", "w", "o">>
s2 == <<"2">>
s17p1 == <<"1", "7", ".", "1">>
s12abc == <<"1", "2", "a", "b", "c">>
s1p5x == <<"1", ".", "5", "x">>

\* ------------------------------------------------- objects and properties
\* An object made by a literal ({} on line 36, the enums table a caller
\* writes) is a function from its own property names to values; a property
\* it does not own is read from Object.prototype, of which the model keeps
\* "constructor" (the function Object, whose length is 1) and "toString"
\* (length 0).
ObjectPrototype == (sConstructor :> Fun("Object", 1)) @@ (sToString :> Fun("toString", 0))

\* ToString of a value used as a property name or handed to parseInt
ToStr(v) == IF v.t = "string" THEN v.s ELSE IF v.t = "undefined" THEN sUndefined ELSE <<"?">>

\* record[key] for an object whose own properties are `own`
GetProp(own, name) ==
  IF name \in DOMAIN own THEN own[name]
  ELSE IF name \in DOMAIN ObjectPrototype THEN ObjectPrototype[name]
  ELSE Undefined

\* v.length
LengthOf(v) ==
  IF v.t = "array" THEN Num(Len(v.xs), 0)
  ELSE IF v.t = "function" THEN Num(v.length, 0)
  ELSE Undefined

\* v[0]
Index0(v) == IF v.t = "array" /\ Len(v.xs) >= 1 THEN Str(v.xs[1]) ELSE Undefined

\* ------------------------------------------------ parseInt and parseFloat
DecDigits == <<"0", "1", "2", "3", "4", "5", "6", "7", "8", "9">>
HexLetters == <<"a", "b", "c", "d", "e", "f">>
HexCapitals == <<"A", "B", "C", "D", "E", "F">>
WhiteSpace == {" ", "\t", "\n", "\r"}

IsDigit(c) == \E i \in DOMAIN DecDigits : DecDigits[i] = c
IsHexDigit(c) ==
  \/ IsDigit(c)
  \/ \E i \in DOMAIN HexLetters : HexLetters[i] = c \/ HexCapitals[i] = c

\* the value of a digit in its radix
DigitVal(c) ==
  IF IsDigit(c) THEN (CHOOSE i \in DOMAIN DecDigits : DecDigits[i] = c) - 1
  ELSE (CHOOSE i \in DOMAIN HexLetters : HexLetters[i] = c \/ HexCapitals[i] = c) + 9

\* the string without its leading white space
RECURSIVE TrimStart(_)
TrimStart(str) ==
  IF str # <<>> /\ str[1] \in WhiteSpace THEN TrimStart(Tail(str)) ELSE str

\* how many leading characters of str are digits of the radix
RECURSIVE DigitPrefixLen(_, _)
DigitPrefixLen(str, radix) ==
  IF str # <<>> /\ (IF radix = 16 THEN IsHexDigit(str[1]) ELSE IsDigit(str[1]))
  THEN 1 + DigitPrefixLen(Tail(str), radix)
  ELSE 0

\* the natural number a digit string denotes
RECURSIVE NatOf(_, _)
NatOf(ds, radix) ==
  IF ds = <<>> THEN 0
  ELSE NatOf(SubSeq(ds, 1, Len(ds) - 1), radix) * radix + DigitVal(ds[Len(ds)])

HasSign(str) == str # <<>> /\ str[1] \in {"+", "-"}
Unsigned(str) == IF HasSign(str) THEN Tail(str) ELSE str
SignOf(str) == IF str # <<>> /\ str[1] = "-" THEN -1 ELSE 1
StartsWith(str, pre) == Len(str) >= Len(pre) /\ SubSeq(str, 1, Len(pre)) = pre
Drop(str, n) == SubSeq(str, n + 1, Len(str))

IsHexPrefix(str) == StartsWith(str, <<"0", "x">>) \/ StartsWith(str, <<"0", "X">>)

\* the integer the first n characters of body denote, NaN when n = 0
ReadInt(sign, body, radix, n) ==
  IF n = 0 THEN NaN ELSE Num(sign * NatOf(SubSeq(body, 1, n), radix), 0)

ReadRadix(sign, body, radix) == ReadInt(sign, body, radix, DigitPrefixLen(body, radix))

ParseIntOf(sign, rest) ==
  IF IsHexPrefix(rest) THEN ReadRadix(sign, Drop(rest, 2), 16) ELSE ReadRadix(sign, rest, 10)

ParseIntTrimmed(trimmed) == ParseIntOf(SignOf(trimmed), Unsigned(trimmed))

\* parseInt(v) with no radix argument: white space and a sign are skipped,
\* "0x" selects radix 16, the longest digit prefix is read and whatever
\* follows it is ignored; no digit at all gives NaN.
ParseInt(v) == ParseIntTrimmed(TrimStart(ToStr(v)))

\* m * 10^(-e) in its normal form
RECURSIVE Normal(_, _)
Normal(m, e) ==
  IF e > 0 /\ m % 10 = 0 THEN Normal(m \div 10, e - 1) ELSE Num(m, e)

\* the digits of the fraction that opens str: those after a leading "."
FractionDigits(str) ==
  IF str # <<>> /\ str[1] = "."
  THEN SubSeq(str, 2, 1 + DigitPrefixLen(Tail(str), 10))
  ELSE <<>>

\* the number with the given integer and fraction digits, NaN with neither
ReadFloat(sign, intDigits, fracDigits) ==
  IF intDigits \o fracDigits = <<>> THEN NaN
  ELSE Normal(sign * NatOf(intDigits \o fracDigits, 10), Len(fracDigits))

ParseFloatOf(sign, rest, ni) ==
  ReadFloat(sign, SubSeq(rest, 1, ni), FractionDigits(Drop(rest, ni)))

ParseFloatTrimmed(trimmed) ==
  ParseFloatOf(SignOf(trimmed), Unsigned(trimmed), DigitPrefixLen(Unsigned(trimmed), 10))

\* Number.parseFloat(v): white space and a sign are skipped and the longest
\* prefix that is a decimal literal (digits and an optional fraction) is
\* read; whatever follows it is ignored; no such prefix gives NaN.  No
\* string used here holds an exponent part or the literal Infinity.
ParseFloat(v) == ParseFloatTrimmed(TrimStart(ToStr(v)))

IsNaN(v) == v = NaN

\* if (isNaN(res)) return undefined; return res  (lines 129-132, 163-166)
UndefinedIfNaN(res) == IF IsNaN(res) THEN Undefined ELSE res

\* ------------------------------------------------------------- the parsers
\* A URLQuery (line 19) and an enums table (line 193) are objects: own maps
\* each own property name to its value.
Obj(own) == [t |-> "object", own |-> own]
One == Num(1, 0)

\* function lookup, lines 227-229: record[key]
lookup(key, record) == GetProp(record.own, key)

\* function parseIntSafe, lines 126-136 (parseInt never throws)
parseIntSafe(v) == UndefinedIfNaN(ParseInt(v))

\* function parseNumberSafe, lines 160-170 (parseFloat never throws)
parseNumberSafe(v) == UndefinedIfNaN(ParseFloat(v))

\* stringP's arrow function taking the first value of a repeated key
stringPfn_FirstWins(stringList) ==
  IF LengthOf(stringList) # Num(0, 0) THEN Index0(stringList) ELSE Undefined

\* the arrow function stringP hands to customP, lines 99-101
stringPfn(stringList) ==
  IF LengthOf(stringList) = One THEN Index0(stringList) ELSE Undefined

\* the arrow function intP hands to customP, lines 121-123
intPfn(stringList) ==
  IF LengthOf(stringList) = One THEN parseIntSafe(Index0(stringList)) ELSE Undefined

\* the arrow function numberP hands to customP, lines 155-157
numberPfn(stringList) ==
  IF LengthOf(stringList) = One THEN parseNumberSafe(Index0(stringList)) ELSE Undefined

\* the arrow function enumP hands to customP, lines 194-196
enumPfn(enums, stringList) ==
  IF LengthOf(stringList) = One
  THEN GetProp(enums.own, ToStr(Index0(stringList)))
  ELSE Undefined

\* The functions a caller passes in.  A reducer for customP: "identity"
\* returns the value list it is given, "count" its length.  A function for
\* map / map2 / map3: "collect" returns its arguments as an array,
\* "allOrNothing" does so unless one of them is undefined.
UserReducers == {"identity", "count"}
UserFns == {"collect", "allOrNothing"}

\* a function value: the library's own arrow functions and the caller's
Call(fn, arg) ==
  CASE fn.code = "stringP" -> stringPfn(arg)
    [] fn.code = "intP" -> intPfn(arg)
    [] fn.code = "numberP" -> numberPfn(arg)
    [] fn.code = "enumP" -> enumPfn(fn.enums, arg)
    [] fn.code = "identity" -> arg
    [] fn.code = "count" -> LengthOf(arg)

CallFn(fn, args) ==
  CASE fn = "collect" -> Tuple(args)
    [] fn = "allOrNothing" ->
         IF \E i \in DOMAIN args : args[i] = Undefined THEN Undefined ELSE Tuple(args)

\* `x ?? []` on line 224
OrEmpty(v) == IF v = Undefined THEN Arr(<<>>) ELSE v

\* customP, lines 221-225: (dict) => fn(lookup(key, dict) ?? [])
customP(key, fn, dict) == Call(fn, OrEmpty(lookup(key, dict)))

\* stringP, lines 98-102
stringP(key, dict) == customP(key, [code |-> "stringP"], dict)

\* intP, lines 120-124
intP(key, dict) == customP(key, [code |-> "intP"], dict)

\* numberP, lines 154-158
numberP(key, dict) == customP(key, [code |-> "numberP"], dict)

\* enumP, lines 191-197
enumP(key, enums, dict) == customP(key, [code |-> "enumP", enums |-> enums], dict)

\* A parser value: which constructor built it and with what arguments.
PString(key) == [kind |-> "stringP", key |-> key]
PInt(key) == [kind |-> "intP", key |-> key]
PNumber(key) == [kind |-> "numberP", key |-> key]
PEnum(key, enums) == [kind |-> "enumP", key |-> key, enums |-> enums]
PCustom(key, fn) == [kind |-> "customP", key |-> key, fn |-> fn]
PMap(kind, fn, ps) == [kind |-> kind, fn |-> fn, ps |-> ps]

\* p(dict) for a parser built by a primitive
RunPrimitive(p, dict) ==
  CASE p.kind = "stringP" -> stringP(p.key, dict)
    [] p.kind = "intP" -> intP(p.key, dict)
    [] p.kind = "numberP" -> numberP(p.key, dict)
    [] p.kind = "enumP" -> enumP(p.key, p.enums, dict)
    [] p.kind = "customP" -> customP(p.key, [code |-> p.fn], dict)

\* What one run of a parser did: the value it returned, the (child parser,
\* mapping) pairs it evaluated and the calls of the caller's function it
\* made, in order.
Outcome(value, evals, calls) == [value |-> value, evals |-> evals, calls |-> calls]
Eval(p, dict) == [p |-> p, dict |-> dict]
Called(fn, args) == [fn |-> fn, args |-> args]

\* the call fn(...args) that ends a combinator's run
Invoke(fn, args, evaluated) == Outcome(CallFn(fn, args), evaluated, <<Called(fn, args)>>)

\* map, lines 235-239: (dict) => fn(p(dict))
map(fn, p1, dict) == Invoke(fn, <<RunPrimitive(p1, dict)>>, <<Eval(p1, dict)>>)

\* map2 giving up, without calling fn, when its first child is absent
map2_ShortCircuit(fn, p1, p2, dict) ==
  IF RunPrimitive(p1, dict) = Undefined
  THEN Outcome(Undefined, <<Eval(p1, dict)>>, <<>>)
  ELSE Invoke(fn, <<RunPrimitive(p1, dict), RunPrimitive(p2, dict)>>,
              <<Eval(p1, dict), Eval(p2, dict)>>)

\* map2, lines 241-246: (dict) => fn(p1(dict), p2(dict))
map2(fn, p1, p2, dict) ==
  Invoke(fn, <<RunPrimitive(p1, dict), RunPrimitive(p2, dict)>>,
         <<Eval(p1, dict), Eval(p2, dict)>>)

\* map3, lines 248-254: (dict) => fn(p1(dict), p2(dict), p3(dict))
map3(fn, p1, p2, p3, dict) ==
  Invoke(fn, <<RunPrimitive(p1, dict), RunPrimitive(p2, dict), RunPrimitive(p3, dict)>>,
         <<Eval(p1, dict), Eval(p2, dict), Eval(p3, dict)>>)

\* p(dict) for any parser of the model
Run(p, dict) ==
  CASE p.kind = "map" -> map(p.fn, p.ps[1], dict)
    [] p.kind = "map2" -> map2(p.fn, p.ps[1], p.ps[2], dict)
    [] p.kind = "map3" -> map3(p.fn, p.ps[1], p.ps[2], p.ps[3], dict)
    [] OTHER -> Outcome(RunPrimitive(p, dict), <<>>, <<>>)

\* ------------------------------------------------------------------ inputs
\* sequences over S of length at most n
SeqsUpTo(S, n) == UNION {[1..m -> S] : m \in 0..n}

\* the segments raw query strings are made of: empty, a bare key, a key with
\* an empty value, key=value with a numeral and with a word, a second key,
\* a value holding an '='
Segments ==
  { <<>>, K, K \o <<"=">>, K \o <<"=">> \o s2, K \o <<"=">> \o sTwo,
    J \o <<"=">> \o s2, K \o <<"=">> \o s2 \o <<"=">> \o s2 }

RECURSIVE JoinAmp(_)
JoinAmp(segs) ==
  IF segs = <<>> THEN <<>>
  ELSE IF Len(segs) = 1 THEN segs[1]
  ELSE segs[1] \o <<"&">> \o JoinAmp(Tail(segs))

RawStrings == {JoinAmp(segs) : segs \in SeqsUpTo(Segments, MaxSegs)}

\* the keys parsers are bound to, the values a mapping holds, the tables
ParserKeys == {K, J, sConstructor}
MappingKeys == {K, J}
Values == {s2, s17p1, sTwo, s12abc, s1p5x, sTrue, sConstructor}
DebugTable == Obj((sTrue :> Bool(TRUE)) @@ (sFalse :> Bool(FALSE)))
WordTable == Obj((sUndefined :> Str(sUndefined)) @@ (s2 :> Str(sTwo)))
Tables == {DebugTable, WordTable}

\* the mapping holding the given (key, value) pairs, each value appended to
\* its key's list in order
RECURSIVE MappingOf(_)
MappingOf(pairs) ==
  IF pairs = <<>> THEN <<>>
  ELSE LET rest == MappingOf(SubSeq(pairs, 1, Len(pairs) - 1))
           kv == pairs[Len(pairs)]
           old == IF kv[1] \in DOMAIN rest THEN rest[kv[1]].xs ELSE <<>>
       IN (kv[1] :> Arr(Append(old, kv[2]))) @@ rest

Mappings == {Obj(MappingOf(ps)) : ps \in SeqsUpTo(MappingKeys \X Values, MaxPairs)}

Primitives ==
  {PString(k) : k \in ParserKeys} \cup {PInt(k) : k \in ParserKeys}
    \cup {PNumber(k) : k \in ParserKeys}
    \cup {PEnum(k, e) : k \in ParserKeys, e \in Tables}
    \cup {PCustom(k, r) : k \in ParserKeys, r \in UserReducers}

Children == {PString(K), PInt(J)}

Combined ==
  {PMap("map", f, <<c>>) : f \in UserFns, c \in Children}
    \cup {PMap("map2", f, cs) : f \in UserFns, cs \in Children \X Children}
    \cup {PMap("map3", f, cs) : f \in UserFns, cs \in Children \X Children \X Children}

Parsers == Primitives \cup Combined

\* ------------------------------------------------------------------- state
VARIABLES
  pc,                 \* "idle", "loop", "returned", "parsed", "applied"
  s,                  \* the raw string parse was called with
  p,                  \* the parser in use
  urlQuery, foundQuestionMark, key, start, pos,   \* fromString's locals
  dict,               \* the mapping the parser is applied to
  result,             \* what parse, or the parser, returned
  evals, calls        \* what the parser's run evaluated and called

vars == <<pc, s, p, urlQuery, foundQuestionMark, key, start, pos, dict, result, evals, calls>>

Truthy(v) == v.t = "string" /\ v.s # <<>>
\* s.charAt(i), i counted from 0
CharAt(str, i) == IF i < Len(str) THEN str[i + 1] ELSE ""

Init ==
  /\ pc = "idle"
  /\ s = <<>>
  /\ p = Undefined
  /\ urlQuery = Undefined
  /\ foundQuestionMark = FALSE
  /\ key = Undefined
  /\ start = Undefined
  /\ pos = 0
  /\ dict = Undefined
  /\ result = Undefined
  /\ evals = <<>>
  /\ calls = <<>>

\* a pass that stores an empty value under every character that is neither
\* '&' nor '='
fromStringPass_Populates(str, q, fq, k, st, i) ==
  [urlQuery |-> IF CharAt(str, i) \in {"&", "="} THEN q
                ELSE Obj((<<CharAt(str, i)>> :> Arr(<< <<>> >>)) @@ q.own),
   foundQuestionMark |-> fq,
   key |-> k,
   start |-> st,
   pos |-> i + 1]

\* One pass of fromString's for loop, lines 40-56, with the pos++ that ends
\* it: the locals after the pass.  Nothing assigns key, foundQuestionMark or
\* urlQuery; start is set on an '=' once a key is held.
fromStringPass(str, q, fq, k, st, i) ==
  [urlQuery |-> q,
   foundQuestionMark |-> fq,
   key |-> k,
   start |-> IF Truthy(k) /\ st = Undefined /\ CharAt(str, i) = "="
             THEN Num(i + 1, 0) ELSE st,
   pos |-> i + 1]

\* the parser's run ends: its value is the result
Returns(out) ==
  /\ result' = out.value
  /\ evals' = out.evals
  /\ calls' = out.calls

\* parse(p)(s), lines 72-75: fromString is entered and lines 36-39 run
ParseCall ==
  /\ pc = "idle"
  /\ pc' = "loop"
  /\ \E parser \in Parsers, raw \in RawStrings : p' = parser /\ s' = raw
  /\ urlQuery' = Obj(<<>>)
  /\ foundQuestionMark' = FALSE
  /\ key' = Undefined
  /\ start' = Undefined
  /\ pos' = 0
  /\ UNCHANGED <<dict, result, evals, calls>>

\* lines 40-56: one pass of the loop
LoopPass ==
  /\ pc = "loop"
  /\ pos < Len(s)
  /\ LET after == fromStringPass(s, urlQuery, foundQuestionMark, key, start, pos)
     IN /\ urlQuery' = after.urlQuery
        /\ foundQuestionMark' = after.foundQuestionMark
        /\ key' = after.key
        /\ start' = after.start
        /\ pos' = after.pos
  /\ UNCHANGED <<pc, s, p, dict, result, evals, calls>>

\* line 58: return urlQuery, which parse binds on line 75
FromStringReturn ==
  /\ pc = "loop"
  /\ pos >= Len(s)
  /\ pc' = "returned"
  /\ dict' = urlQuery
  /\ UNCHANGED <<s, p, urlQuery, foundQuestionMark, key, start, pos, result, evals, calls>>

\* line 76: urlQuery === undefined ? undefined : p(urlQuery)
ParseReturn ==
  /\ pc = "returned"
  /\ pc' = "parsed"
  /\ Returns(IF dict = Undefined THEN Outcome(Undefined, <<>>, <<>>) ELSE Run(p, dict))
  /\ UNCHANGED <<s, p, urlQuery, foundQuestionMark, key, start, pos, dict>>

\* a caller applies a parser to a mapping it holds (QueryParser, line 65)
ApplyParser ==
  /\ pc = "idle"
  /\ pc' = "applied"
  /\ \E parser \in Parsers, mapping \in Mappings :
       /\ p' = parser
       /\ dict' = mapping
       /\ Returns(Run(parser, mapping))
  /\ UNCHANGED <<s, urlQuery, foundQuestionMark, key, start, pos>>

Next ==
  \/ ParseCall
  \/ LoopPass
  \/ FromStringReturn
  \/ ParseReturn
  \/ ApplyParser

Spec == Init /\ [][Next]_vars

\* ------------------------------------------- what the tokenizer is to return
\* the pieces of str between the occurrences of the character c
RECURSIVE SplitOn(_, _)
SplitOn(str, c) ==
  IF \E i \in DOMAIN str : str[i] = c
  THEN LET i == CHOOSE j \in DOMAIN str : str[j] = c /\ \A h \in 1..(j - 1) : str[h] # c
       IN <<SubSeq(str, 1, i - 1)>> \o SplitOn(Drop(str, i), c)
  ELSE <<str>>

\* a segment's text before its first '=' and after it
SegmentKey(seg) == SplitOn(seg, "=")[1]
SegmentValue(seg) == Drop(seg, Len(SegmentKey(seg)) + 1)

\* the (key, value) pairs of the non-empty segments of raw, in order
SegmentPairs(raw) ==
  LET segs == SelectSeq(SplitOn(raw, "&"), LAMBDA seg : seg # <<>>)
  IN [i \in DOMAIN segs |-> <<SegmentKey(segs[i]), SegmentValue(segs[i])>>]

\* the values raw gives key k, in the order of their segments
ValuesOf(k, raw) ==
  LET mine == SelectSeq(SegmentPairs(raw), LAMBDA kv : kv[1] = k)
  IN [i \in DOMAIN mine |-> mine[i][2]]

\* the values mapping m holds for key k; none when k is not a key of m
Held(m, k) == IF k \in DOMAIN m.own THEN m.own[k].xs ELSE <<>>

\* the keys raw names and the keys m holds
KeysOf(raw, m) == {SegmentPairs(raw)[i][1] : i \in DOMAIN SegmentPairs(raw)} \cup DOMAIN m.own

IsNumeral(v) == v # <<>> /\ \A i \in DOMAIN v : IsDigit(v[i])
\* digits with an optional fraction: the whole of v is a base-10 numeral
IsDecimal(v) ==
  \E n \in 1..Len(v) :
    /\ IsNumeral(SubSeq(v, 1, n))
    /\ n = Len(v) \/ (v[n + 1] = "." /\ IsNumeral(Drop(v, n + 1)))

Ran == pc \in {"parsed", "applied"}
EmptyMapping == Obj(<<>>)
ExactlyOneKinds == {"stringP", "intP", "numberP", "enumP"}

\* ------------------------------------------------------------------ claims

\* C1: fromString returns a mapping in which every key holds exactly as many
\* values as the key has occurrences in the raw string, in the left-to-right
\* order of their segments.
C1_OccurrencesKept ==
  pc \in {"returned", "parsed"} =>
    /\ dict # Undefined
    /\ \A k \in KeysOf(s, dict) :
         /\ Len(Held(dict, k)) = Len(ValuesOf(k, s))
         /\ Held(dict, k) = ValuesOf(k, s)

\* C2: when key k occurs in exactly one segment 'k=v' of the raw string and
\* v is a base-10 integer numeral, parse(intP(k)) returns the integer v
\* denotes; when k occurs in two segments it returns absence.
C2_ParseIntOfSingleSegment ==
  (pc = "parsed" /\ p.kind = "intP") =>
    /\ (Len(ValuesOf(p.key, s)) = 1 /\ IsNumeral(ValuesOf(p.key, s)[1]))
         => result = Num(NatOf(ValuesOf(p.key, s)[1], 10), 0)
    /\ Len(ValuesOf(p.key, s)) = 2 => result = Undefined

\* C3: stringP(k)(m) is a value, not absence, exactly when k has exactly one
\* value in m, and then it is that value unchanged; with k missing or holding
\* two or more values it is absence.
C3_StringPExactlyOne ==
  (Ran /\ p.kind = "stringP") =>
    /\ result # Undefined <=> Len(Held(dict, p.key)) = 1
    /\ Len(Held(dict, p.key)) = 1 => result = Str(Held(dict, p.key)[1])

C3_Witness ==
  /\ pc = "applied"
  /\ p = PString(K)
  /\ Held(dict, K) = <<sTwo>>
  /\ result = Str(sTwo)

\* C4: enumP(k)(t)(m) is t's entry for the value when k has exactly one value
\* in m and that value is an entry of t, and absence in every other case.
C4_EnumPEntryOrAbsence ==
  (Ran /\ p.kind = "enumP") =>
    IF Len(Held(dict, p.key)) = 1 /\ Held(dict, p.key)[1] \in DOMAIN p.enums.own
    THEN result = p.enums.own[Held(dict, p.key)[1]]
    ELSE result = Undefined

\* C5: intP(k) and numberP(k) give absence whenever k's single value is not
\* entirely a base-10 numeral, a numeric prefix followed by other characters
\* included.
C5_FullStringMatch ==
  (Ran /\ p.kind \in {"intP", "numberP"} /\ Len(Held(dict, p.key)) = 1) =>
    (~IsDecimal(Held(dict, p.key)[1]) => result = Undefined)

\* C6: map, map2 and map3 evaluate every child on the same mapping m, call fn
\* exactly once with the children's results, absent or not, and return what
\* fn returns.
C6_CombinatorsCallFnOnce ==
  (Ran /\ p.kind \in {"map", "map2", "map3"}) =>
    /\ evals = [i \in DOMAIN p.ps |-> Eval(p.ps[i], dict)]
    /\ Len(calls) = 1
    /\ calls[1].fn = p.fn
    /\ calls[1].args = [i \in DOMAIN p.ps |-> RunPrimitive(p.ps[i], dict)]
    /\ result = CallFn(p.fn, calls[1].args)

C6_Witness ==
  /\ pc = "applied"
  /\ p = PMap("map2", "collect", <<PString(K), PInt(J)>>)
  /\ Held(dict, K) = <<>>
  /\ Held(dict, J) = <<s17p1>>
  /\ calls = <<Called("collect", <<Undefined, Num(17, 0)>>)>>
  /\ result = Tuple(<<Undefined, Num(17, 0)>>)

\* C7: customP(k)(r)(m) is r applied to the values k holds in m, and r applied
\* to the empty sequence when k is not present in m.
C7_CustomPReducerOnValues ==
  (Ran /\ p.kind = "customP") =>
    result = Call([code |-> p.fn], Arr(Held(dict, p.key)))

\* C8: fromString("") returns an empty mapping, and parse(p)("") is absence
\* for every parser p built by stringP, intP, numberP or enumP, whatever the
\* key and the table.
C8_EmptyRawGivesAbsence ==
  (pc = "parsed" /\ s = <<>>) =>
    /\ dict = EmptyMapping
    /\ p.kind \in ExactlyOneKinds => result = Undefined

\* C9: the raw string is split on '&'; empty segments give nothing and no
\* failure; every non-empty segment gives one (key, value) pair, the key
\* being the text before its first '=' and the value the text after it, or
\* the empty string without an '='.
C9_SegmentsToPairs ==
  pc \in {"returned", "parsed"} =>
    /\ dict # Undefined
    /\ dict.own = MappingOf(SegmentPairs(s))

====
